---- MODULE Spec2Model ----
(***************************************************************************)
(* SucklessBot: the mod loader (__init / start) and the event dispatchers  *)
(* (__onMessage, __onDelete, __onUpdate) of src/unnamed/part_000, with the *)
(* vote-mute mod descriptor of src/mods/votemute.ts among the loadable     *)
(* mods.  Text is modelled as sequences of one-character strings so that   *)
(* startsWith / replace / trim / split / toLocaleLowerCase are computed.   *)
(***************************************************************************)
EXTENDS Integers, Sequences, FiniteSets, TLC

\* ------------------------------------------------------------------ bounds
\* Most mod files in the mods directory.
MaxMods == 3
\* Most calls of start() on one bot instance.
MaxStarts == 2
\* Most argument tokens after the keyword of a generated message.
MaxArgs == 2
\* Most asynchronous handler operations in flight per mod.
MaxPending == 2
\* Most handler calls that throw in one start() or one event.
MaxFaults == 1

\* -------------------------------------------------------------------- text
UpperCase ==
  <<"A","B","C","D","E","F","G","H","I","J","K","L","M",
    "N","O","P","Q","R","S","T","U","V","W","X","Y","Z">>

LowerCase ==
  <<"a","b","c","d","e","f","g","h","i","j","k","l","m",
    "n","o","p","q","r","s","t","u","v","w","x","y","z">>

\* Characters String.prototype.trim strips (those the model's texts can hold).
WhiteSpace == {" ", "\t"}

LowerOf ==
  [c \in {UpperCase[i] : i \in 1..Len(UpperCase)} |->
     LowerCase[CHOOSE i \in 1..Len(UpperCase) : UpperCase[i] = c]]

toLowerChar(c) == IF c \in DOMAIN LowerOf THEN LowerOf[c] ELSE c

\* String.prototype.toLocaleLowerCase
toLocaleLowerCase(s) == [i \in 1..Len(s) |-> toLowerChar(s[i])]

\* String.prototype.startsWith
startsWith(s, p) == Len(p) <= Len(s) /\ SubSeq(s, 1, Len(p)) = p

\* String.prototype.replace(p, ""): the first occurrence of p is removed.
replace(s, p) ==
  LET hits == {i \in 1..(Len(s) - Len(p) + 1) : SubSeq(s, i, i + Len(p) - 1) = p}
  IN  IF hits = {} THEN s
      ELSE LET i == CHOOSE h \in hits : \A g \in hits : h <= g
           IN  SubSeq(s, 1, i - 1) \o SubSeq(s, i + Len(p), Len(s))

\* String.prototype.trim
trim(s) ==
  LET keep == {i \in 1..Len(s) : s[i] \notin WhiteSpace}
  IN  IF keep = {} THEN <<>>
      ELSE SubSeq(s, CHOOSE a \in keep : \A b \in keep : a <= b,
                     CHOOSE a \in keep : \A b \in keep : a >= b)

\* First index at or after i that holds no space (Len(s) + 1 when none).
skipSpaces(s, i) ==
  LET rest == {j \in i..Len(s) : s[j] # " "}
  IN  IF rest = {} THEN Len(s) + 1 ELSE CHOOSE a \in rest : \A b \in rest : a <= b

RECURSIVE splitFrom(_, _, _)
splitFrom(s, i, cur) ==
  IF i > Len(s) THEN <<cur>>
  ELSE IF s[i] = " " THEN <<cur>> \o splitFrom(s, skipSpaces(s, i), <<>>)
  ELSE splitFrom(s, i + 1, Append(cur, s[i]))

\* String.prototype.split(/ +/): cut at every run of spaces.
split(s) == splitFrom(s, 1, <<>>)

\* Array.prototype.toString: the elements joined by commas.
RECURSIVE toString(_)
toString(a) ==
  IF a = <<>> THEN <<>>
  ELSE IF Len(a) = 1 THEN <<a[1]>>
  ELSE <<a[1], ",">> \o toString(Tail(a))

\* ------------------------------------------------------------ descriptors
\* The mod files the loader can find.  File 1 is src/mods/votemute.ts; the
\* others exercise the remaining DSMod shapes the loader and the
\* dispatchers distinguish (disabled, no command, no onMsgCreate, handlers
\* that are synchronous functions).  A handler is "none" (absent), "sync"
\* (a plain function, which returns or throws) or "async" (an async
\* function: it returns a promise and never throws at the call site).
ModFiles ==
  << [ name |-> "Vote mute", disabled |-> FALSE,
       hasCommand |-> TRUE, command |-> <<"v","o","t","e","m","u","t","e">>,
       aliases |-> << <<"v","m">> >>,
       intents |-> <<"GUILDS", "GUILD_MEMBERS", "GUILD_MESSAGES",
                     "GUILD_MESSAGE_REACTIONS">>,
       onInit |-> "none", onMsgCreate |-> "async",
       onMsgUpdate |-> "none", onMsgDelete |-> "none" ],
     [ name |-> "Mute", disabled |-> FALSE,
       hasCommand |-> TRUE, command |-> <<"M","u","t","e">>,
       aliases |-> << <<"V","M">>, <<"m">> >>,
       intents |-> <<"GUILDS", "GUILD_BANS", "GUILDS">>,
       onInit |-> "sync", onMsgCreate |-> "sync",
       onMsgUpdate |-> "sync", onMsgDelete |-> "sync" ],
     [ name |-> "Watch", disabled |-> FALSE,
       hasCommand |-> FALSE, command |-> <<>>,
       aliases |-> <<>>,
       intents |-> <<"GUILD_MESSAGES">>,
       onInit |-> "none", onMsgCreate |-> "sync",
       onMsgUpdate |-> "sync", onMsgDelete |-> "sync" ],
     [ name |-> "Off", disabled |-> TRUE,
       hasCommand |-> TRUE, command |-> <<"v","m">>,
       aliases |-> << <<"p","i","n","g">> >>,
       intents |-> <<"DIRECT_MESSAGES">>,
       onInit |-> "sync", onMsgCreate |-> "sync",
       onMsgUpdate |-> "sync", onMsgDelete |-> "sync" ],
     [ name |-> "Ping", disabled |-> FALSE,
       hasCommand |-> TRUE, command |-> <<"p","i","n","g">>,
       aliases |-> << <<"m","u","t","e">> >>,
       intents |-> <<"GUILDS">>,
       onInit |-> "sync", onMsgCreate |-> "none",
       onMsgUpdate |-> "sync", onMsgDelete |-> "none" ] >>

ModIds == 1..Len(ModFiles)

\* Directory listings: the files of the mods directory, in readdir order.
RECURSIVE Listings(_)
Listings(n) ==
  IF n = 0 THEN {<<>>}
  ELSE LET shorter == Listings(n - 1)
       IN  shorter \cup
           {Append(l, m) : l \in {x \in shorter : Len(x) = n - 1},
                           m \in ModIds}

DistinctListings ==
  {l \in Listings(MaxMods) : \A i, j \in 1..Len(l) : i # j => l[i] # l[j]}

\* clientOptions given to the constructor: none at all, or intents that are
\* empty (left to the mods) or an explicit override.
ClientOptions ==
  { [present |-> FALSE, intents |-> <<>>],
    [present |-> TRUE,  intents |-> <<>>],
    [present |-> TRUE,  intents |-> <<"GUILD_MESSAGES", "GUILD_VOICE_STATES">>] }

\* config.prefix
Prefixes == { <<"!">> }

VARIABLES
  files,          \* readdirSync(`${path}/mods`): mod file ids, in order
  clientOptions,  \* this.__clientOptions
  config,         \* this.config (its prefix)
  cmdMgr,         \* this.cmdMgr: keyword -> mod entries, in insertion order
  mods,           \* this.mods
  client,         \* this.__client: the intents it was constructed with
  status,         \* "new", "up" (handlers wired), "failed" (start threw), "dead"
  starts,         \* number of start() calls made
  pending,        \* per mod: promises of async handlers not yet settled
  event,          \* the operation last run
  calls,          \* handler invocations made by the operation last run
  errors,         \* logger.error lines written by the operation last run
  uncaught        \* the operation last run ended by throwing to its caller

vars == <<files, clientOptions, config, cmdMgr, mods, client, status, starts,
          pending, event, calls, errors, uncaught>>

NoEvent == [type |-> "none", content |-> <<>>, old |-> <<>>]

Init ==
  /\ files \in DistinctListings
  /\ clientOptions \in ClientOptions
  /\ config \in [prefix : Prefixes]
  /\ cmdMgr = <<>>
  /\ mods = <<>>
  /\ client = [constructed |-> FALSE, intents |-> <<>>]
  /\ status = "new"
  /\ starts = 0
  /\ pending = [m \in ModIds |-> 0]
  /\ event = NoEvent
  /\ calls = <<>>
  /\ errors = <<>>
  /\ uncaught = FALSE

\* ------------------------------------------------------- command manager
\* Keywords a descriptor claims: its aliases in the order given, then its
\* primary command if it has one.
keywords(id) ==
  ModFiles[id].aliases \o
  (IF ModFiles[id].hasCommand THEN <<ModFiles[id].command>> ELSE <<>>)

hasKey(reg, k) == \E i \in 1..Len(reg) : reg[i].key = k

RECURSIVE registerKeys(_, _, _)
registerKeys(reg, id, ks) ==
  IF ks = <<>> THEN reg
  ELSE LET k == toLocaleLowerCase(Head(ks))
       IN  registerKeys(IF hasKey(reg, k) THEN reg
                        ELSE Append(reg, [key |-> k, mod |-> id]),
                        id, Tail(ks))

RECURSIVE appendKeys(_, _, _)
appendKeys(reg, id, ks) ==
  IF ks = <<>> THEN reg
  ELSE appendKeys(Append(reg, [key |-> toLocaleLowerCase(Head(ks)), mod |-> id]),
                  id, Tail(ks))

\* Mutant of register: every keyword is entered, present or not.
registerAppends(reg, id) == appendKeys(reg, id, keywords(id))

\* CommandManager.register: a keyword already present keeps its owner.
register(reg, id) == registerKeys(reg, id, keywords(id))

\* CommandManager.getMod: the owner of the keyword, 0 when there is none.
getMod(reg, cmd) ==
  LET k == toLocaleLowerCase(cmd)
      hits == {i \in 1..Len(reg) : reg[i].key = k}
  IN  IF hits = {} THEN 0
      ELSE reg[CHOOSE i \in hits : \A j \in hits : i <= j].mod

\* ------------------------------------------------------------------ loader
has(seq, x) == \E i \in 1..Len(seq) : seq[i] = x

\* mod.intents.forEach(intent => { if (!intents.includes(intent)) push })
RECURSIVE addIntents(_, _)
addIntents(intents, wanted) ==
  IF wanted = <<>> THEN intents
  ELSE addIntents(IF has(intents, Head(wanted)) THEN intents
                  ELSE Append(intents, Head(wanted)),
                  Tail(wanted))

Undefined == [kind |-> "undefined", val |-> <<>>]
ArgList(tokens) == [kind |-> "list", val |-> tokens]
MessageArg(text) == [kind |-> "message", val |-> <<text>>]
BotArg == [kind |-> "bot", val |-> <<>>]

\* Which handler calls of an operation throw, by the call's number among the
\* calls the operation makes: those that throw a value the catch block can
\* log (an Error, a string), and the one, 0 for none, that throws a value
\* the catch block cannot format (null, undefined, a Symbol, an object
\* without toString), on which the catch block itself throws.
NoFaults == [caught |-> {}, uncaught |-> 0]

\* The fault plans over the given calls, of at most MaxFaults faults; no
\* call after the one the catch block fails on is made, so none throws.
FaultPlans(ks) ==
  UNION { { [caught |-> c, uncaught |-> u] :
              u \in {0} \cup {k \in ks : Cardinality(c) < MaxFaults /\ \A j \in c : j < k} } :
          c \in {s \in SUBSET ks : Cardinality(s) <= MaxFaults} }

\* What calling a handler of the given sort does at the call site, as the
\* k-th call of the operation: "throw" is a throw that is caught and logged,
\* "unloggable" one on which `${e}\n${e.stack}` throws inside the catch.
outcome(sort, k, faults) ==
  IF sort = "async" THEN "promise"
  ELSE IF k \in faults.caught THEN "throw"
  ELSE IF k = faults.uncaught THEN "unloggable"
  ELSE "ok"

Call(id, handler, a1, a2, out) ==
  [mod |-> id, handler |-> handler, a1 |-> a1, a2 |-> a2, outcome |-> out]

\* Mutant of loadMod: the disabled flag is not looked at.
loadModIgnoresDisabled(st, id, faults) ==
  LET out == outcome(ModFiles[id].onInit, Len(st.calls) + 1, faults)
  IN  [ intents |-> addIntents(st.intents, ModFiles[id].intents),
        cmdMgr  |-> register(st.cmdMgr, id),
        mods    |-> Append(st.mods, id),
        calls   |-> IF ModFiles[id].onInit = "none" THEN st.calls
                    ELSE Append(st.calls, Call(id, "onInit", BotArg, Undefined, out)),
        errors  |-> IF ModFiles[id].onInit # "none" /\ out = "throw"
                    THEN Append(st.errors, ModFiles[id].name)
                    ELSE st.errors,
        threw   |-> ModFiles[id].onInit # "none" /\ out = "unloggable" ]

\* Mutant of loadMod: a mod one of whose keywords is taken is left out of
\* the mod list.
loadModSkipsOnCollision(st, id, faults) ==
  IF ModFiles[id].disabled THEN st
  ELSE LET out == outcome(ModFiles[id].onInit, Len(st.calls) + 1, faults)
           taken == \E i \in 1..Len(keywords(id)) :
                      hasKey(st.cmdMgr, toLocaleLowerCase(keywords(id)[i]))
       IN  [ intents |-> addIntents(st.intents, ModFiles[id].intents),
             cmdMgr  |-> register(st.cmdMgr, id),
             mods    |-> IF taken THEN st.mods ELSE Append(st.mods, id),
             calls   |-> IF ModFiles[id].onInit = "none" THEN st.calls
                         ELSE Append(st.calls, Call(id, "onInit", BotArg, Undefined, out)),
             errors  |-> IF ModFiles[id].onInit # "none" /\ out = "throw"
                         THEN Append(st.errors, ModFiles[id].name)
                         ELSE st.errors,
             threw   |-> ModFiles[id].onInit # "none" /\ out = "unloggable" ]

\* The body of the readdirSync(...).forEach callback for one mod file.  The
\* mod's intents are added, it is registered and pushed, then its onInit is
\* called in try/catch; threw: the catch block threw while formatting what
\* it caught.
loadMod(st, id, faults) ==
  IF ModFiles[id].disabled THEN st
  ELSE LET out == outcome(ModFiles[id].onInit, Len(st.calls) + 1, faults)
       IN  [ intents |-> addIntents(st.intents, ModFiles[id].intents),
             cmdMgr  |-> register(st.cmdMgr, id),
             mods    |-> Append(st.mods, id),
             calls   |-> IF ModFiles[id].onInit = "none" THEN st.calls
                         ELSE Append(st.calls, Call(id, "onInit", BotArg, Undefined, out)),
             errors  |-> IF ModFiles[id].onInit # "none" /\ out = "throw"
                         THEN Append(st.errors, ModFiles[id].name)
                         ELSE st.errors,
             threw   |-> ModFiles[id].onInit # "none" /\ out = "unloggable" ]

\* readdirSync(...).forEach: an exception out of the callback ends the loop.
RECURSIVE loadAll(_, _, _)
loadAll(st, fs, faults) ==
  IF fs = <<>> \/ st.threw THEN st
  ELSE loadAll(loadMod(st, Head(fs), faults), Tail(fs), faults)

\* Mutant of chooseIntents: the override is merged with the mods' intents.
chooseIntentsMerges(options, intents) ==
  IF toString(options.intents) # <<>> THEN addIntents(options.intents, intents) ELSE intents

\* if (this.__clientOptions.intents.toString() !== "") intents = override
chooseIntents(options, intents) ==
  IF toString(options.intents) # <<>> THEN options.intents ELSE intents

\* Promises left behind by the async handlers among the calls made.
promised(cs, m) == Cardinality({i \in 1..Len(cs) : cs[i].mod = m /\ cs[i].outcome = "promise"})

addPending(p, cs) == [m \in ModIds |-> p[m] + promised(cs, m)]

\* The calls of a run, by number, that are made on synchronous handlers:
\* each may throw.
Throwable(run) == {i \in 1..Len(run.calls) : run.calls[i].outcome = "ok"}

\* The loader's locals and the fields it fills, before the first mod file.
Loading == [intents |-> <<>>, cmdMgr |-> cmdMgr, mods |-> mods,
            calls |-> <<>>, errors |-> <<>>, threw |-> FALSE]

\* SucklessBot.start: __init, then login and the wiring of the handlers.
\* __init throws, and start() with it, before the client is constructed:
\* out of the catch block around onInit, which leaves the later mod files
\* unloaded, or, without clientOptions, at its read of
\* this.__clientOptions.intents, after the mods were loaded.  A client
\* wired by an earlier start() stays as it is.
start ==
  /\ status \in {"new", "up", "failed"}
  /\ event = NoEvent
  /\ starts < MaxStarts
  /\ \E faults \in FaultPlans(Throwable(loadAll(Loading, files, NoFaults))) :
       LET st == loadAll(Loading, files, faults)
       IN  /\ \A m \in ModIds : pending[m] + promised(st.calls, m) <= MaxPending
           /\ cmdMgr' = st.cmdMgr
           /\ mods' = st.mods
           /\ calls' = st.calls
           /\ errors' = st.errors
           /\ pending' = addPending(pending, st.calls)
           /\ IF ~st.threw /\ clientOptions.present
              THEN /\ client' = [constructed |-> TRUE,
                                 intents |-> chooseIntents(clientOptions, st.intents)]
                   /\ status' = "up"
                   /\ uncaught' = FALSE
              ELSE /\ client' = client
                   /\ status' = IF status = "up" THEN "up" ELSE "failed"
                   /\ uncaught' = TRUE
  /\ starts' = starts + 1
  /\ event' = [type |-> "start", content |-> <<>>, old |-> <<>>]
  /\ UNCHANGED <<files, clientOptions, config>>

\* ---------------------------------------------------------------- events
RECURSIVE join(_, _)
join(tokens, sep) ==
  IF tokens = <<>> THEN <<>>
  ELSE IF Len(tokens) = 1 THEN tokens[1]
  ELSE tokens[1] \o sep \o join(Tail(tokens), sep)

\* First tokens of the generated messages: a case variant of a keyword two
\* mods claim, a keyword one mod claims, and one nobody claims.
FirstTokens == { <<"V","m">>, <<"p","i","n","g">>, <<"x","y","z">> }

ArgTokens == << <<"a">>, <<"B">> >>

\* Argument lists of each length up to n: a, then B a, then a B a, ...
ArgLists(n) ==
  {[i \in 1..k |-> ArgTokens[1 + ((k - i) % 2)]] : k \in 0..n}

\* The generated token lists: none, the doubly claimed keyword with each
\* argument list, and the other first tokens with one argument.
TokenLists ==
  {<<>>} \cup {<< <<"V","m">> >> \o as : as \in ArgLists(MaxArgs)}
         \cup {<<k, ArgTokens[1]>> : k \in FirstTokens}

\* The text of a message: an optional prefix, then the tokens, tightly
\* spaced or with a leading space, double spaces between and a trailing one.
build(pre, loose, tokens) ==
  pre \o (IF loose THEN <<" ">> \o join(tokens, <<" ", " ">>) \o <<" ">>
          ELSE join(tokens, <<" ">>))

\* Single tokens around the keywords of the mods: case variants, proper
\* prefixes and extensions.
KeywordTokens ==
  { <<"V","M">>, <<"v">>, <<"v","m","x">>, <<"P","i","N","g">>,
    <<"V","o","t","e","M","u","t","e">> }

\* Texts that hold white space only.
Blanks == { <<"\t">>, <<" ","\t"," ">> }

\* Token lists of the messages sent without the prefix.
PlainTokenLists == { << <<"V","m">> >>, << <<"x","y","z">>, <<"a">> >> }

\* Token lists of the messages sent with loose spacing.
LooseTokenLists == {t \in TokenLists : t = <<>> \/ Head(t) = <<"V","m">>}

Messages ==
  {build(pre, FALSE, tokens) : pre \in Prefixes, tokens \in TokenLists}
  \cup {build(pre, TRUE, tokens) : pre \in Prefixes, tokens \in LooseTokenLists}
  \cup {build(<<>>, FALSE, tokens) : tokens \in PlainTokenLists}
  \cup {pre \o body : pre \in Prefixes, body \in KeywordTokens \cup Blanks}

\* Texts of the messages that get edited or deleted.
Edits == {<<>>} \cup {build(pre, FALSE, << <<"V","m">>, <<"a">> >>) : pre \in Prefixes}

\* ------------------------------------------------------------- dispatchers
\* One handler call inside its try/catch: the call made, the line logged,
\* and whether the catch block threw while formatting what it caught.
invoke(acc, id, h, a1, a2, faults) ==
  LET out == outcome(ModFiles[id][h], Len(acc.calls) + 1, faults)
  IN  [ calls  |-> Append(acc.calls, Call(id, h, a1, a2, out)),
        errors |-> IF out = "throw" THEN Append(acc.errors, ModFiles[id].name)
                   ELSE acc.errors,
        threw  |-> out = "unloggable" ]

\* list.forEach(mod => { try { if (mod[h]) mod[h](a1, a2, this) } catch ... }):
\* an exception out of the catch block ends the loop.
RECURSIVE fanOut(_, _, _, _, _, _)
fanOut(acc, ids, h, a1, a2, faults) ==
  IF ids = <<>> \/ acc.threw THEN acc
  ELSE fanOut(IF ModFiles[Head(ids)][h] = "none" THEN acc
              ELSE invoke(acc, Head(ids), h, a1, a2, faults),
              Tail(ids), h, a1, a2, faults)

\* const mods = []; this.mods.forEach(mod => { if (!mods.includes(mod)) push })
RECURSIVE dedupe(_, _)
dedupe(acc, ids) ==
  IF ids = <<>> THEN acc
  ELSE dedupe(IF has(acc, Head(ids)) THEN acc ELSE Append(acc, Head(ids)), Tail(ids))

Nothing == [calls |-> <<>>, errors |-> <<>>, threw |-> FALSE]

\* Mutant of runOnMessage: the keyword is not shifted off the tokens.
runOnMessageKeepsKeyword(reg, list, prefix, content, faults) ==
  IF ~startsWith(content, prefix)
  THEN fanOut(Nothing, list, "onMsgCreate", content, Undefined, faults)
  ELSE LET msg == trim(replace(content, prefix))
           arg == split(msg)
           cmd == toLocaleLowerCase(Head(arg))
           mod == getMod(reg, cmd)
       IN  IF mod = 0
           THEN fanOut(Nothing, list, "onMsgCreate", content, Undefined, faults)
           ELSE IF ModFiles[mod].onMsgCreate = "none" THEN Nothing
           ELSE invoke(Nothing, mod, "onMsgCreate", content, ArgList(arg), faults)

\* Mutant of runOnMessage: the keyword is looked up as typed.
runOnMessageCaseSensitive(reg, list, prefix, content, faults) ==
  IF ~startsWith(content, prefix)
  THEN fanOut(Nothing, list, "onMsgCreate", content, Undefined, faults)
  ELSE LET msg == trim(replace(content, prefix))
           arg == split(msg)
           cmd == Head(arg)
           hits == {i \in 1..Len(reg) : reg[i].key = cmd}
           mod == IF hits = {} THEN 0
                  ELSE reg[CHOOSE i \in hits : \A j \in hits : i <= j].mod
       IN  IF mod = 0
           THEN fanOut(Nothing, list, "onMsgCreate", content, Undefined, faults)
           ELSE IF ModFiles[mod].onMsgCreate = "none" THEN Nothing
           ELSE invoke(Nothing, mod, "onMsgCreate", content, ArgList(Tail(arg)), faults)

\* Mutant of runOnMessage: a command whose owner has no on-message handler
\* is handed to all mods as a plain message.
runOnMessageFansOutWithoutHandler(reg, list, prefix, content, faults) ==
  IF ~startsWith(content, prefix)
  THEN fanOut(Nothing, list, "onMsgCreate", content, Undefined, faults)
  ELSE LET msg == trim(replace(content, prefix))
           arg == split(msg)
           cmd == toLocaleLowerCase(Head(arg))
           mod == getMod(reg, cmd)
       IN  IF mod = 0 \/ ModFiles[mod].onMsgCreate = "none"
           THEN fanOut(Nothing, list, "onMsgCreate", content, Undefined, faults)
           ELSE invoke(Nothing, mod, "onMsgCreate", content, ArgList(Tail(arg)), faults)

\* SucklessBot.__onMessage on the given state of the bot.
runOnMessage(reg, list, prefix, content, faults) ==
  IF ~startsWith(content, prefix)
  THEN fanOut(Nothing, list, "onMsgCreate", content, Undefined, faults)
  ELSE LET msg == trim(replace(content, prefix))
           arg == split(msg)
           cmd == toLocaleLowerCase(Head(arg))
           mod == getMod(reg, cmd)
       IN  IF mod = 0
           THEN fanOut(Nothing, list, "onMsgCreate", content, Undefined, faults)
           ELSE IF ModFiles[mod].onMsgCreate = "none" THEN Nothing
           ELSE invoke(Nothing, mod, "onMsgCreate", content, ArgList(Tail(arg)), faults)

\* SucklessBot.__onDelete
runOnDelete(list, content, faults) ==
  fanOut(Nothing, dedupe(<<>>, list), "onMsgDelete", content, ArgList(split(content)), faults)

\* SucklessBot.__onUpdate
runOnUpdate(list, old, new, faults) ==
  fanOut(Nothing, dedupe(<<>>, list), "onMsgUpdate", old, MessageArg(new), faults)

\* Mutant of Dispatched: the deduplicated copy of the mod list is stored
\* back into this.mods.
DispatchedStoresList(type, content, old, run) ==
  /\ \A m \in ModIds : pending[m] + promised(run.calls, m) <= MaxPending
  /\ event' = [type |-> type, content |-> content, old |-> old]
  /\ calls' = run.calls
  /\ errors' = run.errors
  /\ uncaught' = run.threw
  /\ pending' = addPending(pending, run.calls)
  /\ mods' = dedupe(<<>>, mods)
  /\ UNCHANGED <<files, clientOptions, config, cmdMgr, client, status, starts>>

\* A client event handled: its calls recorded, promises left in flight; an
\* exception out of a catch block leaves the listener, to the emitter.
Dispatched(type, content, old, run) ==
  /\ \A m \in ModIds : pending[m] + promised(run.calls, m) <= MaxPending
  /\ event' = [type |-> type, content |-> content, old |-> old]
  /\ calls' = run.calls
  /\ errors' = run.errors
  /\ uncaught' = run.threw
  /\ pending' = addPending(pending, run.calls)
  /\ UNCHANGED <<files, clientOptions, config, cmdMgr, mods, client, status, starts>>

\* The client emits messageCreate.
onMessage ==
  /\ status = "up"
  /\ event = NoEvent
  /\ \E content \in Messages :
       \E faults \in FaultPlans(Throwable(runOnMessage(cmdMgr, mods, config.prefix, content, NoFaults))) :
         Dispatched("messageCreate", content, <<>>,
                    runOnMessage(cmdMgr, mods, config.prefix, content, faults))

\* The client emits messageDelete.
onDelete ==
  /\ status = "up"
  /\ event = NoEvent
  /\ \E content \in Edits :
       \E faults \in FaultPlans(Throwable(runOnDelete(mods, content, NoFaults))) :
         Dispatched("messageDelete", content, <<>>, runOnDelete(mods, content, faults))

\* The client emits messageUpdate.
onUpdate ==
  /\ status = "up"
  /\ event = NoEvent
  /\ \E old \in Edits, new \in Edits :
       \E faults \in FaultPlans(Throwable(runOnUpdate(mods, old, new, NoFaults))) :
         Dispatched("messageUpdate", new, old, runOnUpdate(mods, old, new, faults))

\* --------------------------------------------------------- async handlers
Settled(m) ==
  /\ event = NoEvent
  /\ pending[m] > 0
  /\ pending' = [pending EXCEPT ![m] = @ - 1]
  /\ UNCHANGED <<files, clientOptions, config, cmdMgr, mods, client, starts,
                 event, calls, errors, uncaught>>

\* The promise an async handler returned is fulfilled.
resolved ==
  \E m \in ModIds :
    /\ status \in {"up", "failed"}
    /\ Settled(m)
    /\ status' = status

\* The promise an async handler returned is rejected.  No call site holds
\* the promise, so the rejection is unhandled: the runtime either ends the
\* process or only warns, by its version and flags.
rejected ==
  \E m \in ModIds :
    /\ status \in {"up", "failed"}
    /\ Settled(m)
    /\ status' \in {status, "dead"}

\* The operation under way returns to the event loop: its calls are over,
\* and the next start() or client event can run.
returned ==
  /\ event # NoEvent
  /\ event' = NoEvent
  /\ calls' = <<>>
  /\ errors' = <<>>
  /\ uncaught' = FALSE
  /\ UNCHANGED <<files, clientOptions, config, cmdMgr, mods, client, status,
                 starts, pending>>

Next ==
  start \/ onMessage \/ onDelete \/ onUpdate \/ resolved \/ rejected \/ returned

Spec == Init /\ [][Next]_vars

\* -------------------------------------------------------------- properties
\* The enabled mods of the directory listing, in load order.
enabledFiles == SelectSeq(files, LAMBDA m : ~ModFiles[m].disabled)

\* Those of a list of mods that have the given handler, in the list's order.
withHandler(ids, h) == SelectSeq(ids, LAMBDA m : ModFiles[m][h] # "none")

calledMods == [i \in 1..Len(calls) |-> calls[i].mod]

Range(seq) == {seq[i] : i \in 1..Len(seq)}

\* The generated texts, by prefix, spacing and tokens.
Texts ==
  [pre \in {<<>>} \cup Prefixes, loose \in BOOLEAN, tokens \in TokenLists |->
     build(pre, loose, tokens)]

\* The ways a generated text was built: <<prefix, loose, tokens>>.
Readings ==
  [m \in Messages |-> {r \in DOMAIN Texts : Texts[r] = m}]

\* The token lists of which the event last dispatched is the prefixed text.
CommandTokens ==
  IF event.type = "messageCreate"
  THEN {r[3] : r \in {x \in Readings[event.content] : x[1] = config.prefix}}
  ELSE {}

\* The event last dispatched is a prefixed message with these tokens.
IsCommand(tokens) == tokens \in CommandTokens

\* C1 as stated: a prefixed message "cmd arg1 ... argN" whose keyword
\* resolves to mod M causes exactly one on-message invocation, M's, with
\* the arguments [arg1, ..., argN].
C1_ExactlyOneInvocation ==
  \A tokens \in CommandTokens :
    (tokens # <<>> /\ getMod(cmdMgr, Head(tokens)) # 0) =>
      /\ Len(calls) = 1
      /\ calls[1].mod = getMod(cmdMgr, Head(tokens))
      /\ calls[1].handler = "onMsgCreate"
      /\ calls[1].a1 = event.content
      /\ calls[1].a2 = ArgList(Tail(tokens))

\* C1 amended: when the keyword resolves to a mod M that has an on-message
\* handler, exactly one on-message invocation happens, it is M's, and it
\* receives [arg1, ..., argN]; no other mod's handler is invoked.
C1_ExclusiveDelivery ==
  \A tokens \in CommandTokens :
    (/\ tokens # <<>>
     /\ getMod(cmdMgr, Head(tokens)) # 0
     /\ ModFiles[getMod(cmdMgr, Head(tokens))].onMsgCreate # "none") =>
      /\ Len(calls) = 1
      /\ calls[1].mod = getMod(cmdMgr, Head(tokens))
      /\ calls[1].handler = "onMsgCreate"
      /\ calls[1].a1 = event.content
      /\ calls[1].a2 = ArgList(Tail(tokens))

\* A two-argument command was delivered to its owner while another mod
\* with an on-message handler was loaded.
C1_Witness ==
  /\ IsCommand(<< <<"V","m">>, <<"B">>, <<"a">> >>)
  /\ Len(calls) = 1
  /\ calls[1].a2 = ArgList(<< <<"B">>, <<"a">> >>)
  /\ Len(withHandler(mods, "onMsgCreate")) >= 2

\* C2 as stated: a message that does not start with the prefix is handed
\* to every enabled mod with an on-message handler exactly once, in load
\* order, with args undefined.
C2_FanOutOncePerMod ==
  (event.type = "messageCreate" /\ ~startsWith(event.content, config.prefix)) =>
    /\ calledMods = withHandler(enabledFiles, "onMsgCreate")
    /\ \A i \in 1..Len(calls) : calls[i].a2 = Undefined

\* The event last dispatched is a prefixed message whose keyword no mod owns.
IsUnknownCommand ==
  \E tokens \in CommandTokens : tokens = <<>> \/ getMod(cmdMgr, tokens[1]) = 0

\* What a run shows of its invocations, the payload aside.
shape(cs) == [i \in 1..Len(cs) |-> <<cs[i].mod, cs[i].handler, cs[i].a2, cs[i].outcome>>]

\* The fault plan the calls made show.
faultsOf(cs) ==
  [caught |-> {i \in 1..Len(cs) : cs[i].outcome = "throw"},
   uncaught |-> IF \E i \in 1..Len(cs) : cs[i].outcome = "unloggable"
                THEN CHOOSE i \in 1..Len(cs) : cs[i].outcome = "unloggable"
                ELSE 0]

\* The last handler call made threw a value its catch block could not log.
catchFailed == calls # <<>> /\ calls[Len(calls)].outcome = "unloggable"

isPrefixOf(a, b) == Len(a) <= Len(b) /\ SubSeq(b, 1, Len(a)) = a

\* C3 as stated: a prefixed message whose keyword resolves to no mod is delivered
\* like a message without the prefix: to every mod of the mod list that has
\* an on-message handler, in order, with args undefined, so every enabled
\* mod with the handler receives it; the same text without the prefix gives
\* the same invocations.
C3_UnknownCommandIsPlainMessage ==
  IsUnknownCommand =>
    /\ calledMods = withHandler(mods, "onMsgCreate")
    /\ \A i \in 1..Len(calls) :
         /\ calls[i].a1 = event.content
         /\ calls[i].a2 = Undefined
         /\ calls[i].handler = "onMsgCreate"
    /\ Range(withHandler(enabledFiles, "onMsgCreate")) \subseteq Range(calledMods)
    /\ \A r \in Readings[event.content] :
         r[1] = config.prefix =>
           shape(runOnMessage(cmdMgr, mods, config.prefix, Texts[<<>>, r[2], r[3]],
                              faultsOf(calls)).calls) = shape(calls)

\* The keywords a mod claims, as the registry stores them.
Claims ==
  [id \in ModIds |-> {toLocaleLowerCase(keywords(id)[i]) : i \in 1..Len(keywords(id))}]

claimed(id) == Claims[id]

owners(k) == {cmdMgr[i].mod : i \in {j \in 1..Len(cmdMgr) : cmdMgr[j].key = k}}

\* C4: a keyword claimed by several loaded mods (as alias or as primary
\* command) belongs to the one loaded first and to no later one; the
\* collision logs no error, and unless the load was ended by a catch block
\* that failed, every enabled mod, the later claimants included, is loaded.
C4_FirstRegistrantWins ==
  /\ \A k \in UNION {claimed(m) : m \in Range(mods)} :
       LET at == {i \in 1..Len(mods) : k \in claimed(mods[i])}
           first == mods[CHOOSE a \in at : \A b \in at : a <= b]
       IN  /\ owners(k) = {first}
           /\ getMod(cmdMgr, k) = first
  /\ event.type = "start" =>
       LET thrown == SelectSeq(calls, LAMBDA c : c.outcome = "throw")
       IN  /\ errors = [i \in 1..Len(thrown) |-> ModFiles[thrown[i].mod].name]
           /\ ~catchFailed => Range(enabledFiles) \subseteq Range(mods)

\* "Vote mute" (alias vm) was loaded before "Mute" (alias VM): vm is Vote
\* mute's, and Mute is loaded.
C4_Witness ==
  /\ starts >= 1
  /\ \E i, j \in 1..Len(mods) : i < j /\ mods[i] = 1 /\ mods[j] = 2
  /\ getMod(cmdMgr, <<"v","m">>) = 1
  /\ getMod(cmdMgr, <<"m">>) = 2

DisabledFiles == {files[i] : i \in {j \in 1..Len(files) : ModFiles[files[j]].disabled}}

\* C5: a disabled mod owns no keyword of the registry, is not in the mod
\* list, adds no capability to the set the client is constructed with, and
\* no handler of it (init, created, updated, deleted) is ever invoked.
C5_DisabledModsAreInert ==
  \A d \in DisabledFiles :
    /\ \A i \in 1..Len(cmdMgr) : cmdMgr[i].mod # d
    /\ d \notin Range(mods)
    /\ d \notin Range(calledMods)
    /\ client.constructed =>
         \A f \in Range(ModFiles[d].intents) :
           f \in Range(client.intents) =>
             \/ f \in Range(clientOptions.intents)
             \/ \E i \in 1..Len(enabledFiles) : f \in Range(ModFiles[enabledFiles[i]].intents)

\* A listing with the disabled mod was loaded and a message was fanned out.
C5_Witness ==
  /\ DisabledFiles # {}
  /\ files[1] \in DisabledFiles
  /\ client.constructed
  /\ clientOptions.intents = <<>>
  /\ event.type = "messageCreate"
  /\ Len(calls) >= 2

\* C6 as stated: in a fan-out of a message-created event, a handler that throws is
\* logged under its mod's name and every mod after it in the mod list that
\* has an on-message handler is still invoked with the same message.
C6_ThrowDoesNotStopFanOut ==
  (/\ event.type = "messageCreate"
   /\ \E i \in 1..Len(calls) :
        calls[i].outcome \in {"throw", "unloggable"} /\ calls[i].a2 = Undefined) =>
    LET thrown == SelectSeq(calls, LAMBDA c : c.outcome \in {"throw", "unloggable"})
    IN  /\ calledMods = withHandler(mods, "onMsgCreate")
        /\ \A i \in 1..Len(calls) : calls[i].a1 = event.content /\ calls[i].a2 = Undefined
        /\ errors = [i \in 1..Len(thrown) |-> ModFiles[thrown[i].mod].name]

\* C7 as stated: no handler fault, a fault of an asynchronous handler
\* included, brings the host down or ends start() or a dispatcher by an
\* exception.
C7_HostSurvivesHandlerFaults == status # "dead" /\ ~catchFailed

\* C8 as stated: a message-updated or message-deleted event reaches each enabled mod
\* that has the matching handler exactly once, in load order, whatever the
\* text of the message, the registry, the number of times the mod is in
\* the mod list, and whichever handlers throw.
C8_LifecycleFanOutOncePerMod ==
  /\ event.type = "messageUpdate" =>
       /\ calledMods = withHandler(enabledFiles, "onMsgUpdate")
       /\ \A i \in 1..Len(calls) :
            /\ calls[i].handler = "onMsgUpdate"
            /\ calls[i].a1 = event.old
            /\ calls[i].a2 = MessageArg(event.content)
  /\ event.type = "messageDelete" =>
       /\ calledMods = withHandler(enabledFiles, "onMsgDelete")
       /\ \A i \in 1..Len(calls) :
            /\ calls[i].handler = "onMsgDelete"
            /\ calls[i].a1 = event.content

uniqueKeys == \A i, j \in 1..Len(cmdMgr) : cmdMgr[i].key = cmdMgr[j].key => i = j

\* C9: a run of start() leaves every entry of the registry as it was, and
\* leaves the whole registry as it was when every enabled mod had been
\* registered by an earlier run; no keyword of the registry ever has two
\* entries.
C9_RegistrationIdempotent ==
  /\ [][starts' = starts + 1 =>
         /\ isPrefixOf(cmdMgr, cmdMgr')
         /\ (starts >= 1 /\ Range(enabledFiles) \subseteq Range(mods)) => cmdMgr' = cmdMgr]_vars
  /\ []uniqueKeys

\* start() ran twice over mods that claim a common keyword.
C9_Witness ==
  /\ starts = 2
  /\ Len(cmdMgr) >= 4
  /\ \E i, j \in 1..Len(enabledFiles) :
       i # j /\ claimed(enabledFiles[i]) \cap claimed(enabledFiles[j]) # {}

\* C10: the client is constructed with the override of clientOptions when
\* that is not empty, and otherwise with the union of the enabled mods'
\* intents, each listed once.
C10_ClientIntents ==
  client.constructed =>
    IF clientOptions.intents # <<>>
    THEN client.intents = clientOptions.intents
    ELSE /\ Range(client.intents) =
              UNION {Range(ModFiles[enabledFiles[i]].intents) : i \in 1..Len(enabledFiles)}
         /\ \A i, j \in 1..Len(client.intents) :
              client.intents[i] = client.intents[j] => i = j

\* No override, and two enabled mods that ask for a common intent.
C10_Witness ==
  /\ client.constructed
  /\ clientOptions.intents = <<>>
  /\ \E i, j \in 1..Len(enabledFiles) :
       /\ i # j
       /\ Range(ModFiles[enabledFiles[i]].intents)
            \cap Range(ModFiles[enabledFiles[j]].intents) # {}
  /\ Len(client.intents) >= 3

\* The event last dispatched is the prefix followed by this text.
IsPrefixed(body) ==
  event.type = "messageCreate" /\ event.content = config.prefix \o body

\* The run handed the message to every mod of the mod list that has an
\* on-message handler, in order, as a plain message.
PlainFanOut ==
  /\ calledMods = withHandler(mods, "onMsgCreate")
  /\ \A i \in 1..Len(calls) :
       /\ calls[i].handler = "onMsgCreate"
       /\ calls[i].a1 = event.content
       /\ calls[i].a2 = Undefined
  /\ Range(withHandler(enabledFiles, "onMsgCreate")) \subseteq Range(calledMods)

\* C11 as stated: the prefix followed by white space only gives the empty keyword,
\* which no mod owns, and the message is handed to every enabled mod with
\* an on-message handler with args undefined, whatever mods are loaded.
C11_BlankCommandIsPlainMessage ==
  /\ owners(<<>>) = {}
  /\ getMod(cmdMgr, <<>>) = 0
  /\ \A body \in Blanks \cup {<<>>, <<" ", " ">>} : IsPrefixed(body) => PlainFanOut

AllFirstTokens == FirstTokens \cup KeywordTokens

isProperPrefix(a, b) == Len(a) < Len(b) /\ SubSeq(b, 1, Len(a)) = a

\* The run took the keyword for nobody's: the calls it made are those of
\* the fan-out over the mod list, with args undefined, to its end unless a
\* catch block failed.
Unresolved(k) ==
  /\ getMod(cmdMgr, k) = 0
  /\ isPrefixOf(calledMods, withHandler(mods, "onMsgCreate"))
  /\ ~uncaught => calledMods = withHandler(mods, "onMsgCreate")
  /\ \A i \in 1..Len(calls) :
       /\ calls[i].handler = "onMsgCreate"
       /\ calls[i].a1 = event.content
       /\ calls[i].a2 = Undefined

\* The keyword is not in the registry but is a proper prefix or a proper
\* extension of one that is.
nearKeyword(k) ==
  /\ owners(k) = {}
  /\ \E i \in 1..Len(cmdMgr) : isProperPrefix(k, cmdMgr[i].key) \/ isProperPrefix(cmdMgr[i].key, k)

OnlyCallIsTo(m, args) ==
  /\ Len(calls) = 1
  /\ calls[1].mod = m
  /\ calls[1].handler = "onMsgCreate"
  /\ calls[1].a1 = event.content
  /\ calls[1].a2 = ArgList(args)

\* C12 as stated: the prefix followed by any case variant of a registered
\* keyword is delivered to the keyword's owner and to no other mod; a token
\* that is only a proper prefix or extension of a registered keyword
\* resolves to no mod.
C12_CaseInsensitiveExactMatch ==
  \A t \in AllFirstTokens :
    IsPrefixed(t) =>
      /\ \A m \in owners(toLocaleLowerCase(t)) : OnlyCallIsTo(m, <<>>)
      /\ nearKeyword(toLocaleLowerCase(t)) => Unresolved(toLocaleLowerCase(t))

\* C12 amended: the owner receives the message, alone, when it has an
\* on-message handler; when it has none, no mod receives it.
C12_CaseInsensitiveExactDelivery ==
  \A t \in AllFirstTokens :
    IsPrefixed(t) =>
      /\ \A m \in owners(toLocaleLowerCase(t)) :
           IF ModFiles[m].onMsgCreate # "none" THEN OnlyCallIsTo(m, <<>>) ELSE calls = <<>>
      /\ nearKeyword(toLocaleLowerCase(t)) => Unresolved(toLocaleLowerCase(t))

\* "!VM" went to the owner of vm alone, with another handler loaded.
C12_Witness ==
  /\ IsPrefixed(<<"V","M">>)
  /\ owners(<<"v","m">>) # {}
  /\ Len(calls) = 1
  /\ Len(withHandler(mods, "onMsgCreate")) >= 2

\* C13 as stated: the mod list never holds the same descriptor twice.
C13_ModListHasNoDuplicates == Len(mods) = Cardinality(Range(mods))

DispatchTypes == {"messageCreate", "messageUpdate", "messageDelete"}

\* C14: the registry, the mod list and the intents of the client change in
\* a start() step only; no dispatch of a message-created, -updated or
\* -deleted event changes them.
C14_OnlyStartChangesLoadState ==
  [][/\ (cmdMgr' # cmdMgr \/ mods' # mods \/ client' # client) =>
          (event'.type = "start" /\ starts' = starts + 1)
     /\ (event'.type \in DispatchTypes /\ event.type = "none") =>
          (cmdMgr' = cmdMgr /\ mods' = mods /\ client' = client)]_vars

\* A fan-out with a throwing handler ran over a mod list that holds mods
\* twice.
C14_Witness ==
  /\ event.type = "messageCreate"
  /\ errors # <<>>
  /\ Len(calls) >= 2
  /\ Len(mods) > Cardinality(Range(mods))
  /\ cmdMgr # <<>>

\* C15 as stated: a handler that left a promise in flight does not hold up the mods
\* after it in the fan-out, and while promises are in flight every next
\* update and delete event is still handled, and so is every next message
\* whose promises fit MaxPending, the bound on promises in flight.
C15_DispatchDoesNotAwait ==
  /\ (/\ event.type = "messageCreate"
      /\ \E i \in 1..Len(calls) : calls[i].outcome = "promise" /\ calls[i].a2 = Undefined)
       => PlainFanOut
  /\ (status = "up" /\ event = NoEvent /\ \E m \in ModIds : pending[m] > 0) =>
       /\ \A old \in Edits, new \in Edits :
            \E run \in {runOnUpdate(mods, old, new, NoFaults)} :
              ENABLED Dispatched("messageUpdate", new, old, run)
       /\ \A content \in Edits :
            \E run \in {runOnDelete(mods, content, NoFaults)} :
              ENABLED Dispatched("messageDelete", content, <<>>, run)
       /\ \A content \in Messages :
            \E run \in {runOnMessage(cmdMgr, mods, config.prefix, content, NoFaults)} :
              (\A m \in ModIds : pending[m] + promised(run.calls, m) <= MaxPending) =>
                ENABLED Dispatched("messageCreate", content, <<>>, run)

\* C16 as stated: when a mod's onInit throws, the mod is in the mod list, its
\* keywords are registered (to it where no earlier mod claimed them), its
\* intents are among those of a client built from the mods' intents, events
\* fanned out on the loaded state reach it, and every enabled mod, those
\* after it included, is loaded and has its onInit called.
C16_InitFaultIsIsolated ==
  event.type = "start" =>
    /\ calledMods = withHandler(enabledFiles, "onInit")
    /\ Range(enabledFiles) \subseteq Range(mods)
    /\ \A i \in 1..Len(calls) :
         calls[i].outcome \in {"throw", "unloggable"} =>
           LET m == calls[i].mod
               at == CHOOSE a \in 1..Len(enabledFiles) : enabledFiles[a] = m
           IN  /\ ModFiles[m].name \in Range(errors)
               /\ m \in Range(mods)
               /\ \A k \in claimed(m) :
                    /\ owners(k) # {}
                    /\ (\A b \in 1..(at - 1) : k \notin claimed(enabledFiles[b])) => owners(k) = {m}
               /\ (client.constructed /\ clientOptions.intents = <<>>) =>
                    Range(ModFiles[m].intents) \subseteq Range(client.intents)
               /\ \A h \in {"onMsgUpdate", "onMsgDelete"} :
                    ModFiles[m][h] # "none" =>
                      \E c \in Range(runOnUpdate(mods, <<>>, <<>>, NoFaults).calls
                                     \o runOnDelete(mods, <<>>, NoFaults).calls) :
                        c.mod = m /\ c.handler = h
               /\ ModFiles[m].onMsgCreate # "none" =>
                    \E c \in Range(runOnMessage(cmdMgr, mods, config.prefix, <<>>, NoFaults).calls) :
                      c.mod = m

\* The mod the event last dispatched resolves to, 0 when none: from the
\* generated token lists and single tokens.
ResolvedOwners ==
  UNION {owners(toLocaleLowerCase(Head(tokens))) : tokens \in CommandTokens \ {<<>>}}
  \cup UNION {owners(toLocaleLowerCase(t)) : t \in {x \in KeywordTokens : IsPrefixed(x)}}

\* C17: a prefixed message whose keyword resolves to a mod without an
\* on-message handler invokes no handler of any mod, logs nothing and
\* throws nothing.
C17_HandlerlessOwnerGetsNothing ==
  \A m \in ResolvedOwners :
    ModFiles[m].onMsgCreate = "none" => (calls = <<>> /\ errors = <<>> /\ ~uncaught)

\* "!ping a" resolved to Ping, which has no on-message handler, while mods
\* with that handler were loaded.
C17_Witness ==
  /\ IsCommand(<< <<"p","i","n","g">>, <<"a">> >>)
  /\ ResolvedOwners = {5}
  /\ Len(withHandler(mods, "onMsgCreate")) >= 2
  /\ calls = <<>>

====
